---------------------------- MODULE Spec2Model ----------------------------
(***************************************************************************)
(* Model of the MEFS storage plugin: the StorageService client             *)
(* (clients/storage.ts), the configuration validation (schemes.ts), the    *)
(* CID extraction (utils.ts) and the STORAGE_RETRIEVE action handler       *)
(* (actions).                                                              *)
(*                                                                         *)
(* One StorageService instance is shared by a set of callers.  Every       *)
(* `await` of the TypeScript code is a point where another caller may      *)
(* run, so every action below is one synchronous run of code between two   *)
(* awaits.  The remote MEFS service is the environment: it answers each    *)
(* request in flight with a 2xx response or with a failure status.         *)
(***************************************************************************)
EXTENDS Integers, Sequences, FiniteSets, TLC

(***************************************************************************)
(* Bounds of the model.                                                    *)
(***************************************************************************)
NumCallers == 2     \* callers sharing the one StorageService instance
MaxCalls == 3       \* top-level invocations (service calls, handler runs)
MaxCids == 2        \* longest list of CID candidates in one message
MaxItems == 2       \* most items (attachments and response texts) of one upload
MaxLiveCalls == 2   \* top-level invocations in the runs checked for termination

Callers == 1..NumCallers

(***************************************************************************)
(* Option values: <<>> is null/undefined, <<x>> is the value x.            *)
(***************************************************************************)
None == <<>>
Some(x) == <<x>>
IsNone(o) == Len(o) = 0
IsSome(o) == Len(o) = 1
Val(o) == o[1]

(***************************************************************************)
(* Tokens.  A login response of the service carries the tokens of session  *)
(* sid; NoToken stands for every falsy value of the field (null,           *)
(* undefined, the empty string), which is all the code tests.              *)
(***************************************************************************)
NoToken == [kind |-> "none", sid |-> 0]
AccessTok(n) == [kind |-> "access", sid |-> n]
RefreshTok(n) == [kind |-> "refresh", sid |-> n]
Truthy(tok) == tok.kind # "none"

(***************************************************************************)
(* Runtime settings and configuration validation (schemes.ts).  A private  *)
(* key string is represented by what the code looks at: whether it starts  *)
(* with "0x", how many characters follow, whether they are all hex digits, *)
(* whether their value is one ethers takes as a private key (not zero,     *)
(* below the order of the curve), and which key it is.                     *)
(***************************************************************************)
KeyLength == 64
DefaultChainId == 985
DefaultApiUrl == "https://api.mefs.io:10000/produce"
DefaultOrigin == "https://memo.io"

GoodKey ==
    [set |-> TRUE, prefix0x |-> FALSE, len |-> 64, hex |-> TRUE, scalarOk |-> TRUE, id |-> 1]
ShortKey ==
    [set |-> TRUE, prefix0x |-> FALSE, len |-> 63, hex |-> TRUE, scalarOk |-> FALSE, id |-> 2]
UnsetKey ==
    [set |-> FALSE, prefix0x |-> FALSE, len |-> 0, hex |-> FALSE, scalarOk |-> FALSE, id |-> 0]
\* "0x" followed by the digits of GoodKey
PrefixedKey == [GoodKey EXCEPT !.prefix0x = TRUE]
\* 64 characters, not all of them hex digits
NonHexKey == [GoodKey EXCEPT !.hex = FALSE, !.scalarOk = FALSE, !.id = 3]
\* 64 zeros
ZeroKey == [GoodKey EXCEPT !.scalarOk = FALSE, !.id = 4]
\* the strings "" and "0x"
EmptyKey == [UnsetKey EXCEPT !.set = TRUE]
BarePrefixKey == [UnsetKey EXCEPT !.set = TRUE, !.prefix0x = TRUE]

IsUrl(s) == s \in {"https://api.example", DefaultApiUrl, DefaultOrigin}

\* parseInt(chainIdStr, 10): the integer that the longest prefix of the form
\* [+-]?[0-9]+ denotes.  NaN is represented by [nan |-> TRUE].
ParseInt(s) ==
    CASE s = "985" -> [nan |-> FALSE, n |-> 985]
      [] s = "0" -> [nan |-> FALSE, n |-> 0]
      [] s = "-5" -> [nan |-> FALSE, n |-> -5]
      [] s = "1.5" -> [nan |-> FALSE, n |-> 1]
      [] OTHER -> [nan |-> TRUE, n |-> 0]

\* /^[a-fA-F0-9]{64}$/ on the whole string
KeyRegex(k) == k.set /\ ~k.prefix0x /\ k.hex /\ k.len = KeyLength

\* the wallet address ethers derives from a key: a function of the key alone
WalletAddress(k) == [addressOf |-> k.id]

\* whether `new ethers.Wallet("0x" + digits)` returns: the digits are 32 bytes
\* whose value is a private key of the curve
WalletAccepts(k) == k.len = KeyLength /\ k.scalarOk

privateKeyToAddress(k) ==
    IF ~k.set \/ (~k.prefix0x /\ k.len = 0)
    THEN [ok |-> FALSE, error |-> "Private key cannot be empty", address |-> WalletAddress(UnsetKey)]
    ELSE IF ~(k.hex /\ k.len > 0)
    THEN [ok |-> FALSE, error |-> "Invalid hex format for private key", address |-> WalletAddress(UnsetKey)]
    ELSE IF ~WalletAccepts(k)
    THEN [ok |-> FALSE, error |-> "Failed to convert private key to address", address |-> WalletAddress(UnsetKey)]
    ELSE [ok |-> TRUE, error |-> "", address |-> WalletAddress(k)]

NoConfigValue ==
    [MEFS_API_URL |-> "", MEFS_WALLET_ADDRESS |-> WalletAddress(UnsetKey),
     MEFS_PRIVATE_KEY |-> UnsetKey, MEFS_CHAIN_ID |-> 0, MEFS_ORIGIN |-> ""]

validateStorageClientConfig(s) ==
    LET apiUrl == IF s.MEFS_API_URL = "" THEN DefaultApiUrl ELSE s.MEFS_API_URL
        chain == IF s.MEFS_CHAIN_ID = "" THEN [nan |-> FALSE, n |-> DefaultChainId]
                 ELSE ParseInt(s.MEFS_CHAIN_ID)
        origin == IF s.MEFS_ORIGIN = "" THEN DefaultOrigin ELSE s.MEFS_ORIGIN
        schemaOk == /\ IsUrl(apiUrl)
                    /\ KeyRegex(s.MEFS_PRIVATE_KEY)
                    /\ ~chain.nan
                    /\ IsUrl(origin)
        addr == privateKeyToAddress(s.MEFS_PRIVATE_KEY)
    IN  IF ~schemaOk
        THEN [ok |-> FALSE, error |-> "Storage client configuration validation failed",
              config |-> NoConfigValue]
        ELSE IF ~addr.ok
        THEN [ok |-> FALSE, error |-> "Failed to convert private key to address",
              config |-> NoConfigValue]
        ELSE [ok |-> TRUE, error |-> "",
              config |-> [MEFS_API_URL |-> apiUrl, MEFS_WALLET_ADDRESS |-> addr.address,
                          MEFS_PRIVATE_KEY |-> s.MEFS_PRIVATE_KEY,
                          MEFS_CHAIN_ID |-> chain.n, MEFS_ORIGIN |-> origin]]

\* the settings a runtime may hold in the concurrent model
SettingsSet ==
    { [MEFS_API_URL |-> "https://api.example", MEFS_PRIVATE_KEY |-> GoodKey,
       MEFS_CHAIN_ID |-> "985", MEFS_ORIGIN |-> ""],
      [MEFS_API_URL |-> "", MEFS_PRIVATE_KEY |-> ShortKey,
       MEFS_CHAIN_ID |-> "", MEFS_ORIGIN |-> ""] }

\* the values each setting may hold in the model of the validation
KeySettings ==
    {UnsetKey, EmptyKey, BarePrefixKey, GoodKey, PrefixedKey, ShortKey, NonHexKey, ZeroKey}
ApiUrlSettings == {"", "https://api.example", "no url"}
ChainIdSettings == {"", "985", "0", "-5", "1.5", "abc"}
OriginSettings == {"", "https://api.example", "no url"}
ConfigSettings ==
    [MEFS_API_URL : ApiUrlSettings, MEFS_PRIVATE_KEY : KeySettings,
     MEFS_CHAIN_ID : ChainIdSettings, MEFS_ORIGIN : OriginSettings]

(***************************************************************************)
(* File contents and content identifiers.  The remote store is content     *)
(* addressed: the CID of a blob is a function of its bytes.                *)
(***************************************************************************)
Buffers == { <<72, 73>>, <<0>> }
CidOf(b) == IF b = <<72, 73>> THEN "bafyHI" ELSE "bafyNUL"
Cids == {"bafyHI", "bafyNUL"}

\* the strings the CID pattern of getCIDsFromMessage can match in a text:
\* parsable CIDs and look-alikes that CID.parse rejects
Candidates == Cids \cup {"bogus"}
CidParses(m) == m \in Cids

RECURSIVE SeqsUpTo(_, _)
SeqsUpTo(S, n) ==
    IF n = 0 THEN { <<>> }
    ELSE LET shorter == SeqsUpTo(S, n - 1)
         IN  shorter \cup { Append(q, x) : q \in {r \in shorter : Len(r) = n - 1}, x \in S }

getCIDsFromMessage(matches) == SelectSeq(matches, CidParses)

Keys == {"", "k1"}          \* the optional key argument: "" is not supplied
Statuses == {401, 404}      \* non-2xx statuses the service answers with
Bodies == {"denied", "gone"}    \* the texts of its non-2xx responses
Filenames == {"hi.txt"}

(***************************************************************************)
(* The state.                                                              *)
(***************************************************************************)
VARIABLES
    mefsConfig,     \* StorageService.mefsConfig: None or Some(config)
    accessToken,    \* StorageService.accessToken
    refreshToken,   \* StorageService.refreshToken
    settings,       \* what runtime.getSetting answers
    op,             \* per caller: the service method it is running
    pc,             \* per caller: where that method is suspended
    arg,            \* per caller: the arguments of the method
    res,            \* per caller: the result of the finished method
    attempt,        \* per caller: locals of its loginToMEFS run
    req,            \* per caller: its HTTP request in flight
    track,          \* per caller: history of the running call
    nonces,         \* service: challenges issued so far
    sessions,       \* service: login responses answered 2xx so far
    store,          \* service: the blobs stored
    calls,          \* top-level invocations started so far
    hpc,            \* per caller: position in the action handler it runs
    cids,           \* per caller: handler local `cids`
    idx,            \* per caller: index of the CID the loop is at
    retrievedFiles, \* per caller: handler local `retrievedFiles`
    notFoundFiles,  \* per caller: handler local `notFoundFiles`
    outcomes,       \* per caller: history, outcome of each retrieveFile call
    hres,           \* per caller: the ActionResult returned
    items,          \* per caller: what the upload handler is to upload, in order
    cidResults,     \* per caller: upload handler local `cidResults`
    uploaded,       \* history: the CID each successful uploadFile returned, with
                    \* the bytes that call was given
    stopped         \* history: stop() has run and initializeStorage has not been
                    \* called since

serviceVars == <<mefsConfig, accessToken, refreshToken>>
remoteVars == <<nonces, sessions, store>>
callVars == <<op, pc, arg, res, attempt, req, track>>
handlerVars == <<hpc, cids, idx, retrievedFiles, notFoundFiles, outcomes, hres, items,
                 cidResults>>
vars == <<mefsConfig, accessToken, refreshToken, settings, op, pc, arg, res,
          attempt, req, track, nonces, sessions, store, calls, hpc, cids, idx,
          retrievedFiles, notFoundFiles, outcomes, hres, items, cidResults, uploaded,
          stopped>>

(***************************************************************************)
(* Values of the per-caller variables.                                     *)
(***************************************************************************)
NoSignature == [signer |-> WalletAddress(UnsetKey), msg |-> 0]
NoAttempt == [challengeMessage |-> 0, signature |-> NoSignature]
NoArg == [buffer |-> <<>>, filename |-> "", publicFile |-> FALSE, key |-> "", cid |-> ""]
NoRes ==
    [ok |-> FALSE, error |-> "", status |-> 0, body |-> "", cid |-> "", bytes |-> <<>>,
     address |-> WalletAddress(UnsetKey)]
OkRes == [NoRes EXCEPT !.ok = TRUE]
Fail(msg, st) == [NoRes EXCEPT !.error = msg, !.status = st]
NoReq ==
    [kind |-> "none", token |-> NoToken, address |-> WalletAddress(UnsetKey),
     chainid |-> 0, origin |-> "", message |-> 0, signature |-> NoSignature,
     fields |-> {}, file |-> <<>>, filename |-> "", cid |-> "", key |-> ""]
\* a non-2xx response of the service, and the absence of one
Refusals == [status : Statuses, body : Bodies]
NoRefusal == [status |-> 0, body |-> ""]
NewTrack == [noTokenAtStart |-> FALSE, loginOk |-> FALSE, challenges |-> 0,
             logins |-> 0, storage |-> 0, refused |-> NoRefusal, challengeText |-> 0]
NoHandlerResult ==
    [action |-> "", success |-> FALSE, error |-> "", threw |-> FALSE, retrievedFiles |-> <<>>,
     cidList |-> <<>>]

\* an effect of a synchronous run on its caller: where it suspends or how it ends
Suspend(at, r) == [pc |-> at, req |-> r, res |-> NoRes]
Done(r) == [pc |-> "done", req |-> NoReq, res |-> r]

\* the text each method puts in front of the status and body of a non-ok response
StepError(kind) ==
    CASE kind = "challenge" -> "Failed to get challenge"
      [] kind = "login" -> "Failed to login"
      [] kind = "upload" -> "Failed to upload file"
      [] OTHER -> "Failed to retrieve file"

\* an Error that names neither the step nor the body
httpError_generic(kind, r) == Fail("Request failed", r.status)

\* the Error thrown on a non-ok response r to a request of the given kind:
\* `${StepError}: ${status} ${errorText}`
httpError(kind, r) ==
    [NoRes EXCEPT !.error = StepError(kind), !.status = r.status, !.body = r.body]

\* a client that waits on a refused request for good
refused_hang(request, r) == Suspend("backoff", NoReq)

\* a client that sends a refused request once more
refused_retry(request, r) ==
    Suspend(IF request.kind \in {"challenge", "login"} THEN request.kind ELSE "storage",
            request)

\* `if (!response.ok) throw`: the refused request ends the call
refused(request, r) == Done(httpError(request.kind, r))

(***************************************************************************)
(* StorageService: the synchronous pieces of its methods.                  *)
(***************************************************************************)
\* wallet.signMessage(challengeMessage): the signature names its signer and
\* the exact text signed
signMessage(key, message) == [signer |-> WalletAddress(key), msg |-> message]

\* a loginToMEFS that puts the private key where the address belongs
loginToMEFS_sendsKey(cfg) ==
    IF IsNone(cfg)
    THEN Done(Fail("Storage config not initialized", 0))
    ELSE Suspend("challenge",
                 [NoReq EXCEPT !.kind = "challenge",
                               !.address = Val(cfg).MEFS_PRIVATE_KEY,
                               !.chainid = Val(cfg).MEFS_CHAIN_ID,
                               !.origin = IF Val(cfg).MEFS_ORIGIN # ""
                                          THEN Val(cfg).MEFS_ORIGIN
                                          ELSE Val(cfg).MEFS_API_URL])

\* loginToMEFS up to its first await: the config check and the challenge GET
loginToMEFS(cfg) ==
    IF IsNone(cfg)
    THEN Done(Fail("Storage config not initialized", 0))
    ELSE Suspend("challenge",
                 [NoReq EXCEPT !.kind = "challenge",
                               !.address = Val(cfg).MEFS_WALLET_ADDRESS,
                               !.chainid = Val(cfg).MEFS_CHAIN_ID,
                               !.origin = IF Val(cfg).MEFS_ORIGIN # ""
                                          THEN Val(cfg).MEFS_ORIGIN
                                          ELSE Val(cfg).MEFS_API_URL])

\* a getAuthHeaders that does not check that a token is held
getAuthHeaders_unchecked(tok) == [ok |-> TRUE, Authorization |-> tok]

\* a getAuthHeaders that presents the refresh token
getAuthHeaders_refresh(tok) == [ok |-> Truthy(tok), Authorization |-> refreshToken]

getAuthHeaders(tok) == [ok |-> Truthy(tok), Authorization |-> tok]

\* a field list that appends the key whenever one is supplied
UploadFields_keyAlways(publicFile, key) ==
    {"file"} \cup (IF publicFile THEN {"public"} ELSE {})
             \cup (IF key # "" THEN {"key"} ELSE {})

\* the fields appended to the multipart body
UploadFields(publicFile, key) ==
    {"file"} \cup (IF publicFile THEN {"public"}
                   ELSE IF key # "" THEN {"key"} ELSE {})

\* the FormData implementations the runtime may provide
FormDataImpls == {"global", "package", "none"}

\* uploadFile from its try block to the fetch of the POST
sendUpload(cfg, tok, a, impl) ==
    IF IsNone(cfg) THEN Done(Fail("TypeError", 0))
    ELSE IF impl = "none" THEN Done(Fail("FormData is not available", 0))
    ELSE IF ~getAuthHeaders(tok).ok THEN Done(Fail("Not authenticated", 0))
    ELSE Suspend("storage",
                 [NoReq EXCEPT !.kind = "upload",
                               !.token = getAuthHeaders(tok).Authorization,
                               !.fields = UploadFields(a.publicFile, a.key),
                               !.file = a.buffer,
                               !.filename = a.filename,
                               !.key = IF "key" \in UploadFields(a.publicFile, a.key)
                                       THEN a.key ELSE ""])

\* retrieveFile from its try block to the fetch of the GET
sendRetrieve(cfg, tok, a) ==
    IF IsNone(cfg) THEN Done(Fail("TypeError", 0))
    ELSE IF ~getAuthHeaders(tok).ok THEN Done(Fail("Not authenticated", 0))
    ELSE Suspend("storage",
                 [NoReq EXCEPT !.kind = "retrieve",
                               !.token = getAuthHeaders(tok).Authorization,
                               !.cid = a.cid,
                               !.key = a.key])

\* an initializeStorage without the early return
initializeStorage_noEarlyReturn(cfg, tok) == Suspend("validating", NoReq)

\* initializeStorage up to its first await
initializeStorage(cfg, tok) ==
    IF IsSome(cfg) /\ Truthy(tok) THEN Done(OkRes)
    ELSE Suspend("validating", NoReq)

\* an uploadFile that does not log in first
uploadFile_noLogin(cfg, tok, a, impl) ==
    IF IsNone(cfg) THEN Done(Fail("Storage config not initialized", 0))
    ELSE sendUpload(cfg, tok, a, impl)

\* uploadFile up to its first await
uploadFile(cfg, tok, a, impl) ==
    IF IsNone(cfg) THEN Done(Fail("Storage config not initialized", 0))
    ELSE IF ~Truthy(tok) THEN loginToMEFS(cfg)
    ELSE sendUpload(cfg, tok, a, impl)

\* retrieveFile up to its first await
retrieveFile(cfg, tok, a) ==
    IF IsNone(cfg) THEN Done(Fail("Storage config not initialized", 0))
    ELSE IF ~Truthy(tok) THEN loginToMEFS(cfg)
    ELSE sendRetrieve(cfg, tok, a)

\* what a synchronous run adds to the history of its call
Sent(t, e) ==
    [t EXCEPT !.challenges = @ + (IF e.req.kind = "challenge" THEN 1 ELSE 0),
              !.logins = @ + (IF e.req.kind = "login" THEN 1 ELSE 0),
              !.storage = @ + (IF e.req.kind \in {"upload", "retrieve"} THEN 1 ELSE 0)]

\* caller p starts method m with arguments a; e is the effect of its first run
Begin(p, m, a, e) ==
    /\ op' = [op EXCEPT ![p] = m]
    /\ arg' = [arg EXCEPT ![p] = a]
    /\ pc' = [pc EXCEPT ![p] = e.pc]
    /\ req' = [req EXCEPT ![p] = e.req]
    /\ res' = [res EXCEPT ![p] = e.res]
    /\ attempt' = [attempt EXCEPT ![p] = NoAttempt]
    /\ track' = [track EXCEPT ![p] =
                    Sent([NewTrack EXCEPT !.noTokenAtStart = ~Truthy(accessToken)], e)]

\* caller p continues its method with effect e, its call history being t
ContinueWith(p, e, t) ==
    /\ pc' = [pc EXCEPT ![p] = e.pc]
    /\ req' = [req EXCEPT ![p] = e.req]
    /\ res' = [res EXCEPT ![p] = e.res]
    /\ track' = [track EXCEPT ![p] = Sent(t, e)]

Continue(p, e) == ContinueWith(p, e, track[p])

\* a new StorageService in a runtime whose settings are among S
Start(S) ==
    /\ mefsConfig = None
    /\ accessToken = NoToken
    /\ refreshToken = NoToken
    /\ settings \in S
    /\ op = [p \in Callers |-> "none"]
    /\ pc = [p \in Callers |-> "idle"]
    /\ arg = [p \in Callers |-> NoArg]
    /\ res = [p \in Callers |-> NoRes]
    /\ attempt = [p \in Callers |-> NoAttempt]
    /\ req = [p \in Callers |-> NoReq]
    /\ track = [p \in Callers |-> NewTrack]
    /\ nonces = 0
    /\ sessions = 0
    /\ store = { <<72, 73>> }
    /\ calls = 0
    /\ hpc = [p \in Callers |-> "none"]
    /\ cids = [p \in Callers |-> <<>>]
    /\ idx = [p \in Callers |-> 0]
    /\ retrievedFiles = [p \in Callers |-> <<>>]
    /\ notFoundFiles = [p \in Callers |-> <<>>]
    /\ outcomes = [p \in Callers |-> <<>>]
    /\ hres = [p \in Callers |-> NoHandlerResult]
    /\ items = [p \in Callers |-> <<>>]
    /\ cidResults = [p \in Callers |-> <<>>]
    /\ uploaded = {}
    /\ stopped = FALSE

Init == Start(SettingsSet)
InitConfig == Start(ConfigSettings)

\* Handing a finished result back to the caller is bookkeeping of the model, not
\* code: it happens before anything else does.
Settled == \A q \in Callers : ~(pc[q] = "done" /\ hpc[q] = "none") /\ hpc[q] # "returned"

\* Callers are interchangeable: a new invocation runs as the lowest free caller.
Free(p) == pc[p] = "idle" /\ hpc[p] = "none"
CanCall(p) ==
    /\ Settled
    /\ Free(p)
    /\ calls < MaxCalls
    /\ \A q \in Callers : q < p => ~Free(q)

\* caller p holds no call any more
Reset(p) ==
    /\ op' = [op EXCEPT ![p] = "none"]
    /\ pc' = [pc EXCEPT ![p] = "idle"]
    /\ arg' = [arg EXCEPT ![p] = NoArg]
    /\ res' = [res EXCEPT ![p] = NoRes]
    /\ attempt' = [attempt EXCEPT ![p] = NoAttempt]
    /\ req' = [req EXCEPT ![p] = NoReq]
    /\ track' = [track EXCEPT ![p] = NewTrack]

(***************************************************************************)
(* Direct calls of the service methods.                                    *)
(***************************************************************************)
CallInitializeStorage(p) ==
    /\ CanCall(p)
    /\ calls' = calls + 1
    /\ Begin(p, "init", NoArg, initializeStorage(mefsConfig, accessToken))
    /\ stopped' = FALSE
    /\ UNCHANGED <<serviceVars, settings, remoteVars, uploaded, handlerVars>>

\* uploadFile(buffer, filename, publicFile, key) with arguments from the given sets
UploadCall(p, buffers, flags, keys) ==
    /\ CanCall(p)
    /\ calls' = calls + 1
    /\ \E b \in buffers, f \in Filenames, pub \in flags, k \in keys, impl \in FormDataImpls :
          LET a == [NoArg EXCEPT !.buffer = b, !.filename = f, !.publicFile = pub, !.key = k]
          IN  Begin(p, "upload", a, uploadFile(mefsConfig, accessToken, a, impl))
    /\ UNCHANGED <<serviceVars, settings, remoteVars, uploaded, stopped, handlerVars>>

\* the upload action's own use, uploadFile(content, filename, false), of a blob
\* the service does not hold yet
CallUploadFile(p) == UploadCall(p, {<<0>>}, {FALSE}, {""})

\* any use of uploadFile
CallUploadFileAny(p) == UploadCall(p, Buffers, BOOLEAN, Keys)

\* retrieveFile(cid, key) with arguments from the given sets
RetrieveCall(p, cs, keys) ==
    /\ CanCall(p)
    /\ calls' = calls + 1
    /\ \E c \in cs, k \in keys :
          LET a == [NoArg EXCEPT !.cid = c, !.key = k]
          IN  Begin(p, "retrieve", a, retrieveFile(mefsConfig, accessToken, a))
    /\ UNCHANGED <<serviceVars, settings, remoteVars, uploaded, stopped, handlerVars>>

\* the retrieve action's own use, retrieveFile(cid), of a blob the service holds
CallRetrieveFile(p) == RetrieveCall(p, {"bafyHI"}, {""})

\* any use of retrieveFile
CallRetrieveFileAny(p) == RetrieveCall(p, Cids, Keys)

\* privateKeyToAddress(privateKeyHex: string) called on the key the runtime
\* holds, when it holds one
DeriveAddress(p) ==
    /\ CanCall(p)
    /\ settings.MEFS_PRIVATE_KEY.set
    /\ calls' = calls + 1
    /\ LET a == privateKeyToAddress(settings.MEFS_PRIVATE_KEY)
       IN  Begin(p, "derive", NoArg,
                 Done(IF a.ok THEN [OkRes EXCEPT !.address = a.address]
                      ELSE Fail(a.error, 0)))
    /\ UNCHANGED <<serviceVars, settings, remoteVars, uploaded, stopped, handlerVars>>

\* stop(): the whole method is one synchronous run
stop(cfg, tok, rtok) == [mefsConfig |-> None, accessToken |-> tok, refreshToken |-> rtok]

CallStop(p) ==
    /\ CanCall(p)
    /\ calls' = calls + 1
    /\ LET s == stop(mefsConfig, accessToken, refreshToken)
       IN  /\ mefsConfig' = s.mefsConfig
           /\ accessToken' = s.accessToken
           /\ refreshToken' = s.refreshToken
    /\ Begin(p, "stop", NoArg, Done(OkRes))
    /\ stopped' = TRUE
    /\ UNCHANGED <<settings, remoteVars, uploaded, handlerVars>>

(***************************************************************************)
(* Continuations of the service methods after each await.                  *)
(***************************************************************************)
\* initializeStorage after `await validateStorageClientConfig`
ValidateReturn(p) ==
    /\ Settled
    /\ pc[p] = "validating"
    /\ LET v == validateStorageClientConfig(settings)
       IN  IF v.ok
           THEN /\ mefsConfig' = Some(v.config)
                /\ Continue(p, loginToMEFS(Some(v.config)))
           ELSE /\ mefsConfig' = mefsConfig
                /\ Continue(p, Done(Fail(v.error, 0)))
    /\ UNCHANGED <<accessToken, refreshToken, settings, op, arg, attempt,
                   remoteVars, uploaded, stopped, calls, handlerVars>>

\* loginToMEFS after the challenge GET is answered
ChallengeResponse(p) ==
    /\ Settled
    /\ pc[p] = "challenge"
    /\ \/ /\ nonces' = nonces + 1
          /\ attempt' = [attempt EXCEPT ![p].challengeMessage = nonces + 1]
          /\ ContinueWith(p, Suspend("signing", NoReq),
                          [track[p] EXCEPT !.challengeText = nonces + 1])
       \/ /\ \E r \in Refusals :
                ContinueWith(p, refused(req[p], r), [track[p] EXCEPT !.refused = r])
          /\ UNCHANGED <<nonces, attempt>>
    /\ UNCHANGED <<serviceVars, settings, op, arg, sessions, store, calls, handlerVars,
                   uploaded, stopped>>

\* loginToMEFS: the wallet is built from the config and signs the challenge
SignChallenge(p) ==
    /\ Settled
    /\ pc[p] = "signing"
    /\ IF IsNone(mefsConfig)
       THEN /\ Continue(p, Done(Fail("TypeError", 0)))
            /\ UNCHANGED attempt
       ELSE /\ attempt' = [attempt EXCEPT ![p].signature =
                              signMessage(Val(mefsConfig).MEFS_PRIVATE_KEY,
                                          attempt[p].challengeMessage)]
            /\ Continue(p, Suspend("signed", NoReq))
    /\ UNCHANGED <<serviceVars, settings, op, arg, remoteVars, uploaded, stopped, calls, handlerVars>>

\* a login POST whose signature was never computed
loginBody_unsigned(at) == [message |-> at.challengeMessage, signature |-> NoSignature]

\* the body of the login POST
loginBody(at) == [message |-> at.challengeMessage, signature |-> at.signature]

\* loginToMEFS: the login POST
LoginPost(p) ==
    /\ Settled
    /\ pc[p] = "signed"
    /\ IF IsNone(mefsConfig)
       THEN Continue(p, Done(Fail("TypeError", 0)))
       ELSE Continue(p, Suspend("login",
                [NoReq EXCEPT !.kind = "login",
                              !.message = loginBody(attempt[p]).message,
                              !.signature = loginBody(attempt[p]).signature]))
    /\ UNCHANGED <<serviceVars, settings, op, arg, attempt, remoteVars, uploaded, stopped, calls, handlerVars>>

\* the bodies the service may answer a valid login with: the tokens of a new
\* session, or a body without them
LoginBodies(n) ==
    { [accessToken |-> AccessTok(n), refreshToken |-> RefreshTok(n)],
      [accessToken |-> NoToken, refreshToken |-> NoToken] }

\* the service accepts a login whose message is a challenge it issued,
\* signed as that message
LoginAcceptable(r) ==
    /\ r.message \in 1..nonces
    /\ r.signature.msg = r.message

\* a loginToMEFS that keeps a refresh token it already holds
storeTokens_keepsRefresh(body, tok, rtok) ==
    [accessToken |-> body.accessToken,
     refreshToken |-> IF Truthy(rtok) THEN rtok ELSE body.refreshToken]

\* what loginToMEFS stores from a 2xx login response
storeTokens(body, tok, rtok) ==
    [accessToken |-> body.accessToken, refreshToken |-> body.refreshToken]

\* a failure path that drops the session
keepTokens_cleared(tok, rtok) == [accessToken |-> NoToken, refreshToken |-> NoToken]

\* what loginToMEFS stores when a request of it fails: nothing
keepTokens(tok, rtok) == [accessToken |-> tok, refreshToken |-> rtok]

\* loginToMEFS after the login POST is answered
LoginResponse(p) ==
    /\ Settled
    /\ pc[p] = "login"
    /\ \/ /\ LoginAcceptable(req[p])
          /\ sessions' = sessions + 1
          /\ \E body \in LoginBodies(sessions + 1) :
                LET s == storeTokens(body, accessToken, refreshToken)
                IN  /\ accessToken' = s.accessToken
                    /\ refreshToken' = s.refreshToken
          /\ ContinueWith(p, Suspend("loggedIn", NoReq), [track[p] EXCEPT !.loginOk = TRUE])
       \/ /\ \E r \in Refusals :
                ContinueWith(p, refused(req[p], r), [track[p] EXCEPT !.refused = r])
          /\ LET s == keepTokens(accessToken, refreshToken)
             IN  /\ accessToken' = s.accessToken
                 /\ refreshToken' = s.refreshToken
          /\ UNCHANGED sessions
    /\ UNCHANGED <<mefsConfig, settings, op, arg, attempt, nonces, store, calls, handlerVars,
                   uploaded, stopped>>


\* the method resumes after `await this.loginToMEFS()` returned
AfterLogin(p) ==
    /\ Settled
    /\ pc[p] = "loggedIn"
    /\ \/ /\ op[p] = "init"
          /\ Continue(p, Done(OkRes))
       \/ /\ op[p] = "upload"
          /\ \E impl \in FormDataImpls :
                Continue(p, sendUpload(mefsConfig, accessToken, arg[p], impl))
       \/ /\ op[p] = "retrieve"
          /\ Continue(p, sendRetrieve(mefsConfig, accessToken, arg[p]))
    /\ UNCHANGED <<serviceVars, settings, op, arg, attempt, remoteVars, uploaded, stopped, calls, handlerVars>>

\* what the client does with its session when a storage request is refused
onStorageFailure(st, tok, rtok) == [accessToken |-> tok, refreshToken |-> rtok]

\* the value uploadFile returns from a 2xx response: result.Mid
uploadResult(mid) == [OkRes EXCEPT !.cid = mid]

\* a retrieveFile that drops the last byte of the body
retrieveResult_truncated(body) == [OkRes EXCEPT !.bytes = SubSeq(body, 1, Len(body) - 1)]

\* the value retrieveFile returns from a 2xx response: Buffer.from(arrayBuffer)
retrieveResult(body) == [OkRes EXCEPT !.bytes = body]

\* uploadFile / retrieveFile after the storage request is answered
StorageResponse(p) ==
    /\ Settled
    /\ pc[p] = "storage"
    /\ \/ /\ req[p].kind = "upload"
          /\ Truthy(req[p].token)
          /\ store' = store \cup {req[p].file}
          /\ LET r == uploadResult(CidOf(req[p].file))
             IN  /\ Continue(p, Done(r))
                 /\ uploaded' = uploaded \cup {[cid |-> r.cid, bytes |-> arg[p].buffer]}
          /\ UNCHANGED <<accessToken, refreshToken>>
       \/ /\ req[p].kind = "retrieve"
          /\ Truthy(req[p].token)
          /\ \E b \in store :
                /\ CidOf(b) = req[p].cid
                /\ Continue(p, Done(retrieveResult(b)))
          /\ UNCHANGED <<accessToken, refreshToken, store, uploaded>>
       \/ /\ \E r \in Refusals :
                /\ ContinueWith(p, refused(req[p], r), [track[p] EXCEPT !.refused = r])
                /\ LET s == onStorageFailure(r.status, accessToken, refreshToken)
                   IN  /\ accessToken' = s.accessToken
                       /\ refreshToken' = s.refreshToken
          /\ UNCHANGED <<store, uploaded>>
    /\ UNCHANGED <<mefsConfig, settings, op, arg, attempt, nonces, sessions, calls, handlerVars,
                   stopped>>

\* a direct call has returned to its caller
Return(p) ==
    /\ pc[p] = "done"
    /\ hpc[p] = "none"
    /\ Reset(p)
    /\ UNCHANGED <<serviceVars, settings, remoteVars, uploaded, stopped, calls, handlerVars>>

(***************************************************************************)
(* The STORAGE_RETRIEVE action handler.                                    *)
(***************************************************************************)
\* /[\x00-\x08\x0E-\x1F]/ on the decoded text, for bytes below 0x80 (which
\* UTF-8 decodes to the code point of the same number)
HasControlChar(b) == \E i \in 1..Len(b) : b[i] \in (0..8) \cup (14..31)

\* Buffer.toString('base64'): sextets 0..63, and 64 for the padding '='
RECURSIVE Base64(_)
Base64(b) ==
    IF Len(b) = 0 THEN <<>>
    ELSE IF Len(b) = 1
    THEN << b[1] \div 4, (b[1] % 4) * 16, 64, 64 >>
    ELSE IF Len(b) = 2
    THEN << b[1] \div 4, (b[1] % 4) * 16 + b[2] \div 16, (b[2] % 16) * 4, 64 >>
    ELSE << b[1] \div 4, (b[1] % 4) * 16 + b[2] \div 16,
            (b[2] % 16) * 4 + b[3] \div 64, b[3] % 64 >>
         \o Base64(SubSeq(b, 4, Len(b)))

\* the text shown for a retrieved file
fileContent(b) ==
    IF HasControlChar(b) /\ Len(b) > 0
    THEN [binary |-> TRUE, text |-> <<>>, size |-> Len(b), base64 |-> Base64(b)]
    ELSE [binary |-> FALSE, text |-> b, size |-> 0, base64 |-> <<>>]

\* a loop body that puts a failed CID in front of the list
recordOutcome_prepend(c, r, got, missing) ==
    IF r.ok
    THEN [retrievedFiles |-> Append(got, [cid |-> c, content |-> fileContent(r.bytes),
                                          size |-> Len(r.bytes)]),
          notFoundFiles |-> missing]
    ELSE [retrievedFiles |-> got, notFoundFiles |-> <<c>> \o missing]

\* the loop body after retrieveFile(c) settled with r: the two lists after it
recordOutcome(c, r, got, missing) ==
    IF r.ok
    THEN [retrievedFiles |-> Append(got, [cid |-> c, content |-> fileContent(r.bytes),
                                          size |-> Len(r.bytes)]),
          notFoundFiles |-> missing]
    ELSE [retrievedFiles |-> got, notFoundFiles |-> Append(missing, c)]

\* a loop that a failed retrieveFile leaves
loopContinues_untilFailure(i, n, r) == i < n /\ r.ok

\* `for (const cid of cids)` with the failure caught inside the body: whether
\* another turn follows turn i of n, which settled with r
loopContinues(i, n, r) == i < n

CallbackOutcomes == {"ok", "throws"}

\* the handler's catch block: it calls the callback again and returns a failure
catchBlock(cb2) ==
    [success |-> FALSE, error |-> "Error during retrieve file(s) from MEFS",
     threw |-> (cb2 = "throws"), retrievedFiles |-> <<>>,
     cidList |-> <<>>, action |-> "STORAGE_RETRIEVE"]

\* a handler that reports success for a batch of which nothing was retrieved
actionResult_emptySuccess(got, missing, cb1, cb2) ==
    IF cb1 = "throws" THEN catchBlock(cb2)
    ELSE [success |-> TRUE, error |-> "", threw |-> FALSE, retrievedFiles |-> got,
          cidList |-> <<>>, action |-> "STORAGE_RETRIEVE"]

\* the handler after its loop: the ActionResult built from the two lists
actionResult(got, missing, cb1, cb2) ==
    IF cb1 = "throws" THEN catchBlock(cb2)
    ELSE IF Len(got) = 0
    THEN [success |-> FALSE, error |-> "No files found for the given CIDs",
          threw |-> FALSE, retrievedFiles |-> <<>>,
          cidList |-> <<>>, action |-> "STORAGE_RETRIEVE"]
    ELSE [success |-> TRUE, error |-> "", threw |-> FALSE, retrievedFiles |-> got,
          cidList |-> <<>>, action |-> "STORAGE_RETRIEVE"]

\* the handler returns h without calling the service (again)
HandlerEnds(p, h) ==
    /\ hpc' = [hpc EXCEPT ![p] = "returned"]
    /\ hres' = [hres EXCEPT ![p] = h]

\* handler entry: CID extraction, service lookup, `await initializeStorage()`
RetrieveHandler(p) ==
    /\ CanCall(p)
    /\ calls' = calls + 1
    /\ \E matches \in SeqsUpTo(Candidates, MaxCids), available \in BOOLEAN,
          cb \in CallbackOutcomes :
          LET found == getCIDsFromMessage(matches)
          IN  /\ cids' = [cids EXCEPT ![p] = found]
              /\ IF Len(found) = 0
                 THEN /\ HandlerEnds(p, [success |-> FALSE, error |-> "No CID values provided",
                                         threw |-> (cb = "throws"), retrievedFiles |-> <<>>,
                                         cidList |-> <<>>, action |-> "STORAGE_RETRIEVE"])
                      /\ UNCHANGED <<callVars, stopped>>
                 ELSE IF ~available
                 THEN /\ HandlerEnds(p, IF cb = "throws" THEN catchBlock("ok")
                                        ELSE [success |-> FALSE,
                                              error |-> "Storage service not available in runtime",
                                              threw |-> FALSE, retrievedFiles |-> <<>>,
                                              cidList |-> <<>>, action |-> "STORAGE_RETRIEVE"])
                      /\ UNCHANGED <<callVars, stopped>>
                 ELSE /\ hpc' = [hpc EXCEPT ![p] = "init"]
                      /\ hres' = hres
                      /\ Begin(p, "init", NoArg, initializeStorage(mefsConfig, accessToken))
                      /\ stopped' = FALSE
    /\ UNCHANGED <<serviceVars, settings, remoteVars, uploaded, idx, retrievedFiles,
                   notFoundFiles, outcomes, items, cidResults>>

\* the handler resumes after `await storageService.initializeStorage()`
RetrieveAfterInit(p) ==
    /\ Settled
    /\ hpc[p] = "init"
    /\ pc[p] = "done"
    /\ IF res[p].ok
       THEN LET a == [NoArg EXCEPT !.cid = cids[p][1]]
            IN  /\ hpc' = [hpc EXCEPT ![p] = "loop"]
                /\ idx' = [idx EXCEPT ![p] = 1]
                /\ Begin(p, "retrieve", a, retrieveFile(mefsConfig, accessToken, a))
                /\ hres' = hres
       ELSE /\ \E cb2 \in CallbackOutcomes : HandlerEnds(p, catchBlock(cb2))
            /\ Reset(p)
            /\ idx' = idx
    /\ UNCHANGED <<serviceVars, settings, remoteVars, uploaded, stopped, calls, cids, retrievedFiles,
                   notFoundFiles, outcomes, items, cidResults>>

\* one turn of `for (const cid of cids)`: retrieveFile(cid) has settled
RetrieveLoop(p) ==
    /\ Settled
    /\ hpc[p] = "loop"
    /\ pc[p] = "done"
    /\ LET c == cids[p][idx[p]]
           lists == recordOutcome(c, res[p], retrievedFiles[p], notFoundFiles[p])
       IN  /\ retrievedFiles' = [retrievedFiles EXCEPT ![p] = lists.retrievedFiles]
           /\ notFoundFiles' = [notFoundFiles EXCEPT ![p] = lists.notFoundFiles]
           /\ outcomes' = [outcomes EXCEPT ![p] =
                              Append(@, [cid |-> arg[p].cid, ok |-> res[p].ok,
                                         bytes |-> res[p].bytes])]
           /\ IF loopContinues(idx[p], Len(cids[p]), res[p])
              THEN LET a == [NoArg EXCEPT !.cid = cids[p][idx[p] + 1]]
                   IN  /\ idx' = [idx EXCEPT ![p] = @ + 1]
                       /\ Begin(p, "retrieve", a, retrieveFile(mefsConfig, accessToken, a))
                       /\ UNCHANGED <<hpc, hres>>
              ELSE /\ \E cb1 \in CallbackOutcomes, cb2 \in CallbackOutcomes :
                         HandlerEnds(p, actionResult(lists.retrievedFiles,
                                                     lists.notFoundFiles, cb1, cb2))
                   /\ Reset(p)
                   /\ idx' = idx
    /\ UNCHANGED <<serviceVars, settings, remoteVars, uploaded, stopped, calls, cids, items,
                   cidResults>>

\* the ActionResult has been handed to the runtime
HandlerReturn(p) ==
    /\ hpc[p] = "returned"
    /\ hpc' = [hpc EXCEPT ![p] = "none"]
    /\ cids' = [cids EXCEPT ![p] = <<>>]
    /\ idx' = [idx EXCEPT ![p] = 0]
    /\ retrievedFiles' = [retrievedFiles EXCEPT ![p] = <<>>]
    /\ notFoundFiles' = [notFoundFiles EXCEPT ![p] = <<>>]
    /\ outcomes' = [outcomes EXCEPT ![p] = <<>>]
    /\ hres' = [hres EXCEPT ![p] = NoHandlerResult]
    /\ items' = [items EXCEPT ![p] = <<>>]
    /\ cidResults' = [cidResults EXCEPT ![p] = <<>>]
    /\ UNCHANGED <<serviceVars, settings, callVars, remoteVars, uploaded, stopped, calls>>

(***************************************************************************)
(* The STORAGE_UPLOAD action handler.                                      *)
(***************************************************************************)
\* message.content.attachments: absent, or a list of attachments
Attachments == [url : {"/files/a.bin", "/files/missing"}, title : {"hi.txt"}]
AttachmentLists == {None} \cup {Some(a) : a \in SeqsUpTo(Attachments, MaxItems)}

\* the handler's `responses` argument: memories with or without a text
Responses == [text : {"", "HI"}]
ResponseLists == SeqsUpTo(Responses, MaxItems)

\* what the two loops go through: every attachment, then every response that
\* has a text (`if (response.content?.text)`)
uploadItems(attachments, responses) ==
    LET att == IF IsSome(attachments) THEN attachments[1] ELSE <<>>
        texts == SelectSeq(responses, LAMBDA r : r.text # "")
    IN  [i \in 1..Len(att) |-> [kind |-> "attachment", url |-> att[i].url,
                                 title |-> att[i].title, text |-> ""]]
        \o [i \in 1..Len(texts) |-> [kind |-> "response", url |-> "", title |-> "",
                                       text |-> texts[i].text]]

\* the buffer and filename of an item: fs.readFileSync(attached.url), which
\* throws for a file that is not there, and Buffer.from(text, 'utf-8')
readItem(item) ==
    IF item.kind = "attachment"
    THEN IF item.url = "/files/a.bin"
         THEN [ok |-> TRUE, error |-> "", buffer |-> <<0>>, filename |-> item.title]
         ELSE [ok |-> FALSE, error |-> "ENOENT", buffer |-> <<>>, filename |-> ""]
    ELSE [ok |-> TRUE, error |-> "", buffer |-> <<72, 73>>, filename |-> "response.txt"]

\* the ActionResult of an upload handler run that failed with msg, without
\* the callback having thrown
uploadFailure(msg) ==
    [action |-> "STORAGE_UPLOAD", success |-> FALSE, error |-> msg, threw |-> FALSE,
     retrievedFiles |-> <<>>, cidList |-> <<>>]

\* the upload handler's catch block: it awaits the callback and returns a
\* failure holding the error's message
uploadCatch(msg, cb2) == [uploadFailure(msg) EXCEPT !.threw = (cb2 = "throws")]

\* the upload handler after its loops: the callback, then the ActionResult
\* holding the CIDs collected (cidResults.join(", "), kept here as the list
\* the string is the joining of)
uploadDone(results, cb1, cb2) ==
    IF cb1 = "throws" THEN uploadCatch("callback failed", cb2)
    ELSE [action |-> "STORAGE_UPLOAD", success |-> TRUE, error |-> "", threw |-> FALSE,
          retrievedFiles |-> <<>>, cidList |-> results]

\* the loops come to item i with `results` collected and `out` settled: the
\* item is read and uploaded, or the handler ends
StartItem(p, i, results, out) ==
    IF i > Len(items[p])
    THEN /\ \E cb1 \in CallbackOutcomes, cb2 \in CallbackOutcomes :
               HandlerEnds(p, uploadDone(results, cb1, cb2))
         /\ Reset(p)
         /\ idx' = idx
         /\ outcomes' = [outcomes EXCEPT ![p] = out]
    ELSE LET r == readItem(items[p][i])
             a == [NoArg EXCEPT !.buffer = r.buffer, !.filename = r.filename]
         IN  IF ~r.ok
             THEN /\ \E cb2 \in CallbackOutcomes : HandlerEnds(p, uploadCatch(r.error, cb2))
                  /\ Reset(p)
                  /\ idx' = [idx EXCEPT ![p] = i]
                  /\ outcomes' = [outcomes EXCEPT ![p] = out]
             ELSE /\ hpc' = [hpc EXCEPT ![p] = "uloop"]
                  /\ hres' = hres
                  /\ idx' = [idx EXCEPT ![p] = i]
                  /\ outcomes' = [outcomes EXCEPT ![p] = out]
                  /\ \E impl \in FormDataImpls :
                        Begin(p, "upload", a, uploadFile(mefsConfig, accessToken, a, impl))

\* handler entry: the attachments check, the first callback, the service
\* lookup, `await initializeStorage()`
UploadHandler(p) ==
    /\ CanCall(p)
    /\ calls' = calls + 1
    /\ \E attachments \in AttachmentLists, responses \in ResponseLists,
          available \in BOOLEAN, cb0 \in CallbackOutcomes, cb \in CallbackOutcomes,
          cb2 \in CallbackOutcomes :
          /\ Len(uploadItems(attachments, responses)) <= MaxItems
          /\ IF attachments = Some(<<>>)
             THEN /\ HandlerEnds(p, uploadFailure("No file to upload"))
                  /\ UNCHANGED <<callVars, stopped, items>>
             ELSE IF cb0 = "throws"
             THEN /\ HandlerEnds(p, [uploadFailure("callback failed") EXCEPT !.threw = TRUE])
                  /\ UNCHANGED <<callVars, stopped, items>>
             ELSE IF ~available
             THEN /\ HandlerEnds(p, IF cb = "throws" THEN uploadCatch("callback failed", cb2)
                                    ELSE uploadFailure("Storage service not available in runtime"))
                  /\ UNCHANGED <<callVars, stopped, items>>
             ELSE /\ items' = [items EXCEPT ![p] = uploadItems(attachments, responses)]
                  /\ hpc' = [hpc EXCEPT ![p] = "uinit"]
                  /\ hres' = hres
                  /\ Begin(p, "init", NoArg, initializeStorage(mefsConfig, accessToken))
                  /\ stopped' = FALSE
    /\ UNCHANGED <<serviceVars, settings, remoteVars, uploaded, cids, idx, retrievedFiles,
                   notFoundFiles, outcomes, cidResults>>

\* the handler resumes after `await storageService.initializeStorage()`
UploadAfterInit(p) ==
    /\ Settled
    /\ hpc[p] = "uinit"
    /\ pc[p] = "done"
    /\ IF res[p].ok
       THEN StartItem(p, 1, <<>>, <<>>)
       ELSE /\ \E cb2 \in CallbackOutcomes : HandlerEnds(p, uploadCatch(res[p].error, cb2))
            /\ Reset(p)
            /\ UNCHANGED <<idx, outcomes>>
    /\ UNCHANGED <<serviceVars, settings, remoteVars, uploaded, stopped, calls, cids,
                   retrievedFiles, notFoundFiles, items, cidResults>>

\* one turn of the upload loops: uploadFile(buffer, filename, false) has settled
UploadLoop(p) ==
    /\ Settled
    /\ hpc[p] = "uloop"
    /\ pc[p] = "done"
    /\ LET out == Append(outcomes[p], [cid |-> res[p].cid, ok |-> res[p].ok,
                                       bytes |-> arg[p].buffer])
       IN  IF res[p].ok
           THEN LET results == Append(cidResults[p], res[p].cid)
                IN  /\ cidResults' = [cidResults EXCEPT ![p] = results]
                    /\ StartItem(p, idx[p] + 1, results, out)
           ELSE /\ \E cb2 \in CallbackOutcomes :
                      HandlerEnds(p, uploadCatch(res[p].error, cb2))
                /\ Reset(p)
                /\ outcomes' = [outcomes EXCEPT ![p] = out]
                /\ UNCHANGED <<idx, cidResults>>
    /\ UNCHANGED <<serviceVars, settings, remoteVars, uploaded, stopped, calls, cids,
                   retrievedFiles, notFoundFiles, items>>

\* callers using the service directly
Next ==
    \/ \E p \in Callers : CallInitializeStorage(p)
    \/ \E p \in Callers : CallUploadFile(p)
    \/ \E p \in Callers : CallRetrieveFile(p)
    \/ \E p \in Callers : CallStop(p)
    \/ \E p \in Callers : ValidateReturn(p)
    \/ \E p \in Callers : ChallengeResponse(p)
    \/ \E p \in Callers : SignChallenge(p)
    \/ \E p \in Callers : LoginPost(p)
    \/ \E p \in Callers : LoginResponse(p)
    \/ \E p \in Callers : AfterLogin(p)
    \/ \E p \in Callers : StorageResponse(p)
    \/ \E p \in Callers : Return(p)

Spec == Init /\ [][Next]_vars

\* The runtime handles one message at a time with the retrieve action (as its
\* first caller), while other callers may stop the service under it.
NextActions ==
    \/ \E p \in Callers : p = 1 /\ RetrieveHandler(p)
    \/ \E p \in Callers : RetrieveAfterInit(p)
    \/ \E p \in Callers : RetrieveLoop(p)
    \/ \E p \in Callers : HandlerReturn(p)
    \/ \E p \in Callers : CallStop(p)
    \/ \E p \in Callers : Return(p)
    \/ \E p \in Callers : ValidateReturn(p)
    \/ \E p \in Callers : ChallengeResponse(p)
    \/ \E p \in Callers : SignChallenge(p)
    \/ \E p \in Callers : LoginPost(p)
    \/ \E p \in Callers : LoginResponse(p)
    \/ \E p \in Callers : AfterLogin(p)
    \/ \E p \in Callers : StorageResponse(p)

SpecActions == Init /\ [][NextActions]_vars

\* one caller using the service, one call after the other, with any arguments
NextSequential ==
    \/ \E p \in Callers : p = 1 /\ CallInitializeStorage(p)
    \/ \E p \in Callers : p = 1 /\ CallUploadFileAny(p)
    \/ \E p \in Callers : p = 1 /\ CallRetrieveFileAny(p)
    \/ \E p \in Callers : p = 1 /\ CallStop(p)
    \/ \E p \in Callers : ValidateReturn(p)
    \/ \E p \in Callers : ChallengeResponse(p)
    \/ \E p \in Callers : SignChallenge(p)
    \/ \E p \in Callers : LoginPost(p)
    \/ \E p \in Callers : LoginResponse(p)
    \/ \E p \in Callers : AfterLogin(p)
    \/ \E p \in Callers : StorageResponse(p)
    \/ \E p \in Callers : Return(p)

SpecSequential == Init /\ [][NextSequential]_vars

\* The runtime handles one message at a time with the upload action (as its
\* first caller), while other callers may stop the service under it.
NextUpload ==
    \/ \E p \in Callers : p = 1 /\ UploadHandler(p)
    \/ \E p \in Callers : UploadAfterInit(p)
    \/ \E p \in Callers : UploadLoop(p)
    \/ \E p \in Callers : HandlerReturn(p)
    \/ \E p \in Callers : CallStop(p)
    \/ \E p \in Callers : Return(p)
    \/ \E p \in Callers : ValidateReturn(p)
    \/ \E p \in Callers : ChallengeResponse(p)
    \/ \E p \in Callers : SignChallenge(p)
    \/ \E p \in Callers : LoginPost(p)
    \/ \E p \in Callers : LoginResponse(p)
    \/ \E p \in Callers : AfterLogin(p)
    \/ \E p \in Callers : StorageResponse(p)

SpecUpload == Init /\ [][NextUpload]_vars

\* what the event loop runs for caller p once the value awaited is there: the
\* answer to a request issued, or the continuation of a promise already settled
Resume(p) ==
    \/ ValidateReturn(p)
    \/ ChallengeResponse(p)
    \/ SignChallenge(p)
    \/ LoginPost(p)
    \/ LoginResponse(p)
    \/ AfterLogin(p)
    \/ StorageResponse(p)
    \/ Return(p)
    \/ RetrieveAfterInit(p)
    \/ RetrieveLoop(p)
    \/ HandlerReturn(p)

\* the first caller uses the service and the retrieve action, one call after
\* the other, while other callers may stop the service under it
NextLive ==
    \/ \E p \in Callers : p = 1 /\ calls < MaxLiveCalls /\ CallInitializeStorage(p)
    \/ \E p \in Callers : p = 1 /\ calls < MaxLiveCalls /\ CallUploadFile(p)
    \/ \E p \in Callers : p = 1 /\ calls < MaxLiveCalls /\ CallRetrieveFile(p)
    \/ \E p \in Callers : p = 1 /\ calls < MaxLiveCalls /\ RetrieveHandler(p)
    \/ \E p \in Callers : calls < MaxLiveCalls /\ CallStop(p)
    \/ \E p \in Callers : Resume(p)

\* every request issued is answered and every continuation that is ready is run
SpecLive == Init /\ [][NextLive]_vars /\ \A p \in Callers : WF_vars(Resume(p))

\* one caller validating and initialising under any settings of the runtime
NextConfig ==
    \/ \E p \in Callers : p = 1 /\ CallInitializeStorage(p)
    \/ \E p \in Callers : p = 1 /\ DeriveAddress(p)
    \/ \E p \in Callers : ValidateReturn(p)
    \/ \E p \in Callers : ChallengeResponse(p)
    \/ \E p \in Callers : SignChallenge(p)
    \/ \E p \in Callers : LoginPost(p)
    \/ \E p \in Callers : LoginResponse(p)
    \/ \E p \in Callers : AfterLogin(p)
    \/ \E p \in Callers : Return(p)

SpecConfig == InitConfig /\ [][NextConfig]_vars

(***************************************************************************)
(* Properties.                                                             *)
(***************************************************************************)
LoginPcs == {"challenge", "signing", "signed", "login"}
StorageOps == {"upload", "retrieve"}

RECURSIVE Total(_, _)
\* the sum of f[p] over the callers p of S
Total(S, f) ==
    IF S = {} THEN 0
    ELSE LET p == CHOOSE q \in S : TRUE IN f[p] + Total(S \ {p}, f)

\* the upload/retrieve calls under way that started without a token
UnauthenticatedCalls ==
    {p \in Callers : op[p] \in StorageOps /\ pc[p] # "idle" /\ track[p].noTokenAtStart}

\* C1: when two or more uploadFile/retrieveFile calls that started without an
\* access token are under way on the instance, they have issued at most one
\* challenge GET and at most one login POST between them.
C1_SingleLoginExchange ==
    Cardinality(UnauthenticatedCalls) >= 2 =>
        /\ Total(UnauthenticatedCalls, [p \in Callers |-> track[p].challenges]) <= 1
        /\ Total(UnauthenticatedCalls, [p \in Callers |-> track[p].logins]) <= 1

\* caller p's login fails in this step, on a non-2xx answer or on an exception
LoginFails(p) ==
    /\ pc[p] \in LoginPcs
    /\ pc'[p] = "done"

\* C2: a failed login (non-2xx challenge or login answer) leaves the access
\* and refresh token exactly as they were; and a call that finds a config
\* but no token starts over with a challenge GET and fresh login locals, and
\* every login POST carries the challenge text answered to the challenge GET of
\* the same call.
C2_LoginFailureKeepsSession ==
    [][\A p \in Callers :
          /\ LoginFails(p) => accessToken' = accessToken /\ refreshToken' = refreshToken
          /\ ( /\ pc[p] = "idle"
               /\ op'[p] \in StorageOps
               /\ IsSome(mefsConfig)
               /\ ~Truthy(accessToken) )
             => req'[p].kind = "challenge" /\ attempt'[p] = NoAttempt
          /\ (pc[p] = "validating" /\ pc'[p] \notin {"validating", "done"})
             => req'[p].kind = "challenge" /\ attempt'[p] = NoAttempt
          /\ (pc[p] = "signed" /\ pc'[p] = "login")
             => /\ track[p].challenges = 1
                /\ req'[p].message = attempt[p].challengeMessage
                /\ req'[p].message \in 1..nonces
      ]_vars

\* a call restarts the protocol after an earlier login attempt failed
C2_Witness ==
    \E p \in Callers :
        /\ pc[p] = "challenge"
        /\ calls >= 2
        /\ nonces >= 1
        /\ sessions = 0
        /\ ~Truthy(accessToken)
        /\ \A q \in Callers : q # p => pc[q] = "idle"

\* C3: every upload or retrieve request in flight carries a non-empty access
\* token that a 2xx login response of the service delivered; a call that
\* started without a token has completed a login before its storage request,
\* and without a completed login it issues no storage request.
C3_StorageRequestsCarrySession ==
    \A p \in Callers :
        /\ req[p].kind \in {"upload", "retrieve"}
           => /\ Truthy(req[p].token)
              /\ req[p].token.kind = "access"
              /\ req[p].token.sid \in 1..sessions
              /\ track[p].noTokenAtStart => track[p].loginOk
        /\ (op[p] \in StorageOps /\ track[p].noTokenAtStart /\ ~track[p].loginOk)
           => track[p].storage = 0

\* a call that started without a token has its storage request in flight
C3_Witness ==
    \E p \in Callers :
        /\ req[p].kind = "upload"
        /\ track[p].noTokenAtStart
        /\ track[p].loginOk

\* caller p runs stop() in this step
StopRuns(p) == pc[p] = "idle" /\ op'[p] = "stop" /\ pc'[p] = "done"

\* C4: when stop() has run, the client holds no access token and no refresh
\* token.
C4_StopClearsSession ==
    [][\A p \in Callers :
          StopRuns(p) => ~Truthy(accessToken') /\ ~Truthy(refreshToken')]_vars

\* C5: when the service refuses an upload or retrieve request with the
\* authorization status 401, the client drops its session.
C5_RejectionClearsSession ==
    [][\A p \in Callers :
          (pc[p] = "storage" /\ pc'[p] = "done" /\ res'[p].status = 401)
          => ~Truthy(accessToken') /\ ~Truthy(refreshToken')]_vars

\* C6: initializeStorage called while a config and an access token are held
\* returns at once with success, issues no request, and leaves config and
\* tokens (and the service) as they were.
C6_InitializeIdempotent ==
    [][\A p \in Callers :
          ( /\ pc[p] = "idle"
            /\ op'[p] = "init"
            /\ IsSome(mefsConfig)
            /\ Truthy(accessToken) )
          => /\ pc'[p] = "done"
             /\ res'[p].ok
             /\ req'[p].kind = "none"
             /\ track'[p].challenges = 0
             /\ track'[p].logins = 0
             /\ UNCHANGED <<mefsConfig, accessToken, refreshToken, nonces, sessions, store>>
      ]_vars

\* an initializeStorage call has returned success without any request
C6_Witness ==
    \E p \in Callers :
        /\ op[p] = "init"
        /\ pc[p] = "done"
        /\ res[p].ok
        /\ track[p].challenges = 0
        /\ IsSome(mefsConfig)
        /\ Truthy(accessToken)

LoginErrors == {"Failed to get challenge", "Failed to login", "TypeError"}

\* C7: an uploadFile/retrieveFile call that finds a config but no token runs
\* the login first: its storage request is in flight only after one challenge
\* GET and one login POST of its own that the service answered 2xx; a call that
\* has ended without a completed login has failed, with the error of the login
\* step that failed, after a challenge GET and without any storage request.
C7_LoginFirstOrFail ==
    \A p \in Callers :
        (op[p] \in StorageOps /\ track[p].noTokenAtStart)
        => /\ track[p].storage >= 1
              => track[p].challenges = 1 /\ track[p].logins = 1 /\ track[p].loginOk
           /\ (pc[p] = "done" /\ ~track[p].loginOk)
              => /\ ~res[p].ok
                 /\ track[p].storage = 0
                 /\ \/ res[p].error = "Storage config not initialized" /\ track[p].challenges = 0
                    \/ res[p].error \in LoginErrors /\ track[p].challenges = 1
                 /\ res[p].error = "Failed to login" => track[p].logins = 1
                 /\ res[p].error = "Failed to get challenge" => track[p].logins = 0

\* an unauthenticated call has failed because its login POST was refused
C7_Witness ==
    \E p \in Callers :
        /\ op[p] \in StorageOps
        /\ track[p].noTokenAtStart
        /\ pc[p] = "done"
        /\ res[p].error = "Failed to login"
        /\ track[p].storage = 0

IsOk(o) == o.ok
IsFailed(o) == ~o.ok

\* C8: in the retrieve action, once the per-CID loop has started, every CID
\* of the batch is attempted whatever the earlier attempts gave; every CID
\* whose retrieval succeeded is in retrievedFiles and every CID whose
\* retrieval failed is in notFoundFiles.
C8_BatchIsolation ==
    \A p \in Callers :
        /\ hpc[p] = "loop" => Len(outcomes[p]) = idx[p] - 1
        /\ (hpc[p] = "returned" /\ Len(outcomes[p]) > 0)
           => /\ Len(outcomes[p]) = Len(cids[p])
              /\ \A i \in 1..Len(cids[p]) :
                    IF outcomes[p][i].ok
                    THEN \E k \in 1..Len(retrievedFiles[p]) :
                            retrievedFiles[p][k].cid = cids[p][i]
                    ELSE \E k \in 1..Len(notFoundFiles[p]) :
                            notFoundFiles[p][k] = cids[p][i]

\* a batch whose first CID failed and whose second CID was retrieved
C8_Witness ==
    \E p \in Callers :
        /\ hpc[p] = "returned"
        /\ Len(outcomes[p]) = 2
        /\ ~outcomes[p][1].ok
        /\ outcomes[p][2].ok

\* C9: during and after the per-CID loop, the i-th outcome is that of the
\* request made for the i-th CID; retrievedFiles holds, in request order,
\* exactly the occurrences whose request succeeded, each with the content and
\* size of the bytes that request returned; notFoundFiles holds, in request
\* order, exactly the occurrences whose request failed; so every occurrence
\* is in exactly one of the two lists.
C9_StableCorrespondence ==
    \A p \in Callers :
        hpc[p] \in {"loop", "returned"}
        => LET good == SelectSeq(outcomes[p], IsOk)
               bad == SelectSeq(outcomes[p], IsFailed)
           IN  /\ \A i \in 1..Len(outcomes[p]) : outcomes[p][i].cid = cids[p][i]
               /\ Len(retrievedFiles[p]) + Len(notFoundFiles[p]) = Len(outcomes[p])
               /\ retrievedFiles[p] =
                     [k \in 1..Len(good) |->
                         [cid |-> good[k].cid, content |-> fileContent(good[k].bytes),
                          size |-> Len(good[k].bytes)]]
               /\ notFoundFiles[p] = [k \in 1..Len(bad) |-> bad[k].cid]
               /\ (hpc[p] = "returned" /\ Len(outcomes[p]) > 0)
                  => Len(outcomes[p]) = Len(cids[p])

\* a finished batch with one retrieved CID followed by one failed CID
C9_Witness ==
    \E p \in Callers :
        /\ hpc[p] = "returned"
        /\ Len(retrievedFiles[p]) = 1
        /\ Len(notFoundFiles[p]) = 1
        /\ outcomes[p][1].ok

\* C10: the multipart body of an upload never holds both `public` and `key`;
\* with publicFile true it holds `public` and no `key`, whatever key was
\* supplied; with publicFile false it holds no `public`, and holds `key`
\* exactly when a key was supplied.
C10_ExclusiveUploadFlags ==
    \A p \in Callers :
        req[p].kind = "upload"
        => /\ "file" \in req[p].fields
           /\ ~({"public", "key"} \subseteq req[p].fields)
           /\ arg[p].publicFile
              => "public" \in req[p].fields /\ "key" \notin req[p].fields
           /\ ~arg[p].publicFile
              => /\ "public" \notin req[p].fields
                 /\ "key" \in req[p].fields <=> arg[p].key # ""
           /\ req[p].key = (IF "key" \in req[p].fields THEN arg[p].key ELSE "")

\* an upload request in flight for a public file with a key supplied
C10_Witness ==
    \E p \in Callers :
        /\ req[p].kind = "upload"
        /\ arg[p].publicFile
        /\ arg[p].key # ""

\* C11: round trip against the content-addressed store.  The bytes of an upload
\* request are the bytes uploadFile was given; a successful uploadFile returns
\* the CID the store assigned to them; and a successful retrieveFile of a CID
\* that an earlier uploadFile returned gives exactly the bytes that uploadFile
\* was given.
C11_RoundTrip ==
    \A p \in Callers :
        /\ req[p].kind = "upload" => req[p].file = arg[p].buffer
        /\ (op[p] = "upload" /\ pc[p] = "done" /\ res[p].ok)
           => /\ res[p].cid = CidOf(arg[p].buffer)
              /\ arg[p].buffer \in store
              /\ [cid |-> res[p].cid, bytes |-> arg[p].buffer] \in uploaded
        /\ (op[p] = "retrieve" /\ pc[p] = "done" /\ res[p].ok)
           => \A u \in uploaded : u.cid = arg[p].cid => res[p].bytes = u.bytes

\* a retrieveFile has returned the bytes of a blob that an uploadFile of this
\* client put into the store
C11_Witness ==
    \E p \in Callers :
        /\ op[p] = "retrieve"
        /\ pc[p] = "done"
        /\ res[p].ok
        /\ res[p].bytes = <<0>>
        /\ \E u \in uploaded : u.cid = arg[p].cid /\ u.bytes = <<0>>

\* C12: no call repeats a request.  A call issues at most one challenge GET,
\* at most one login POST (and none without its challenge GET) and at most one
\* request to /mefs/; and once a request of the call was answered non-2xx the
\* call has ended with a failure, with no request in flight.
C12_NoRetry ==
    \A p \in Callers :
        /\ track[p].challenges <= 1
        /\ track[p].logins <= track[p].challenges
        /\ track[p].storage <= 1
        /\ track[p].refused # NoRefusal
           => /\ pc[p] = "done"
              /\ ~res[p].ok
              /\ req[p].kind = "none"

\* an uploadFile call that logged in first has ended on a refused upload
C12_Witness ==
    \E p \in Callers :
        /\ op[p] = "upload"
        /\ pc[p] = "done"
        /\ track[p].challenges = 1
        /\ track[p].logins = 1
        /\ track[p].storage = 1
        /\ track[p].refused.status = 404

\* C13: a login POST is in flight only after the challenge GET of the same call
\* was answered 2xx; its message is exactly the text of that answer and its
\* signature is the configured key's signature of that same text; and the
\* tokens change only in the step in which a login POST is answered 2xx.
C13_LoginProtocolOrder ==
    [][\A p \in Callers :
          /\ req'[p].kind = "login"
             => /\ track'[p].challenges = 1
                /\ track'[p].challengeText \in 1..nonces'
                /\ req'[p].message = track'[p].challengeText
                /\ req'[p].signature =
                      signMessage(settings.MEFS_PRIVATE_KEY, track'[p].challengeText)
          /\ (accessToken' # accessToken \/ refreshToken' # refreshToken)
             => \E q \in Callers :
                   /\ pc[q] = "login"
                   /\ pc'[q] = "loggedIn"
                   /\ sessions' = sessions + 1
      ]_vars

\* a second login attempt of the client has stored the tokens of its 2xx answer
C13_Witness ==
    \E p \in Callers :
        /\ pc[p] = "loggedIn"
        /\ track[p].challengeText = 2
        /\ accessToken = AccessTok(sessions)
        /\ refreshToken = RefreshTok(sessions)

\* C14: whenever a login has completed without error, and whenever
\* initializeStorage has returned success, the client holds a non-empty access
\* token and a refresh token.
C14_SuccessMeansAuthenticated ==
    \A p \in Callers :
        (pc[p] = "loggedIn" \/ (op[p] = "init" /\ pc[p] = "done" /\ res[p].ok))
        => Truthy(accessToken) /\ Truthy(refreshToken)

\* the step of caller p's call that was under way when a response was refused,
\* read from the requests the call has issued
RefusedStep(p) ==
    IF track[p].storage = 1 THEN op[p]
    ELSE IF track[p].logins = 1 THEN "login"
    ELSE "challenge"

\* C15: a call one of whose requests was answered non-2xx has failed with an
\* error that names the step that was refused (challenge, login, upload or
\* retrieve, each with a text of its own) and carries the status and the body
\* of that response.
C15_RefusalsReported ==
    \A p \in Callers :
        track[p].refused # NoRefusal
        => /\ pc[p] = "done" => ~res[p].ok
           /\ res[p].status = track[p].refused.status
           /\ res[p].body = track[p].refused.body
           /\ res[p].error =
                 (CASE RefusedStep(p) = "challenge" -> "Failed to get challenge"
                    [] RefusedStep(p) = "login" -> "Failed to login"
                    [] RefusedStep(p) = "upload" -> "Failed to upload file"
                    [] RefusedStep(p) = "retrieve" -> "Failed to retrieve file")

\* a retrieveFile call has failed on a refused login POST
C15_Witness ==
    \E p \in Callers :
        /\ op[p] = "retrieve"
        /\ pc[p] = "done"
        /\ track[p].refused = [status |-> 401, body |-> "denied"]
        /\ res[p].error = "Failed to login"

\* C16: whatever configuration validation, login, retrieval and the callback
\* do, a handler run that has ended has returned an ActionResult: it has not
\* thrown (its promise has not rejected).
C16_HandlerNeverThrows ==
    \A p \in Callers : hpc[p] = "returned" => ~hres[p].threw

\* the settings that, as the claim has it, validation must reject: a private
\* key that is not exactly 64 hex characters, an apiUrl or originUrl that is
\* set and is not a URL, a chain id that is set and is not the text of a
\* non-negative integer
MustBeRejected(s) ==
    \/ ~( /\ s.MEFS_PRIVATE_KEY.set
          /\ ~s.MEFS_PRIVATE_KEY.prefix0x
          /\ s.MEFS_PRIVATE_KEY.hex
          /\ s.MEFS_PRIVATE_KEY.len = 64 )
    \/ s.MEFS_API_URL \notin {"", "https://api.example"}
    \/ s.MEFS_ORIGIN \notin {"", "https://api.example"}
    \/ s.MEFS_CHAIN_ID \notin {"", "985", "0"}

\* C17: under settings whose private key is not exactly 64 hex characters,
\* whose apiUrl or originUrl is not a valid URL or whose chain id is not a
\* non-negative integer, every initializeStorage fails, the client never holds
\* a config and no request is ever issued.
C17_InvalidConfigRejected ==
    MustBeRejected(settings)
    => /\ IsNone(mefsConfig)
       /\ nonces = 0
       /\ \A p \in Callers :
             /\ req[p].kind = "none"
             /\ track[p].challenges = 0
             /\ (op[p] = "init" /\ pc[p] = "done") => ~res[p].ok

\* a key that, with an optional "0x" in front, is 64 hex characters
WellFormedKey(k) == k.set /\ k.hex /\ k.len = 64

\* C18: privateKeyToAddress returns an address exactly for the keys that are
\* 64 hex characters after an optional "0x"; for every other key it fails with
\* the invalid-key-format error and with no other error; for an accepted key
\* it returns the address of that key's digits.
C18_KeyFormatChecked ==
    \A p \in Callers :
        (op[p] = "derive" /\ pc[p] = "done")
        => /\ res[p].ok <=> WellFormedKey(settings.MEFS_PRIVATE_KEY)
           /\ ~WellFormedKey(settings.MEFS_PRIVATE_KEY)
              => res[p].error = "Invalid hex format for private key"
           /\ res[p].ok => res[p].address = [addressOf |-> settings.MEFS_PRIVATE_KEY.id]

\* C19: the refresh token of each session is kept next to its access token
\* and is never sent: challenge and login requests carry no token, upload
\* and retrieve requests carry an access token; and a call has completed a
\* login only by a challenge GET followed by a login POST of its own, so
\* that the service has issued a challenge for every session it opened.
C19_RefreshTokenUnused ==
    /\ accessToken.kind = "access" => refreshToken = RefreshTok(accessToken.sid)
    /\ sessions <= nonces
    /\ \A p \in Callers :
          /\ req[p].token.kind \in {"none", "access"}
          /\ req[p].kind \in {"challenge", "login"} => ~Truthy(req[p].token)
          /\ req[p].kind \in {"upload", "retrieve"} => req[p].token.kind = "access"
          /\ track[p].loginOk => track[p].challenges = 1 /\ track[p].logins = 1

\* an upload request in flight after the client authenticated a second time,
\* the refresh token of the second session being held
C19_Witness ==
    \E p \in Callers :
        /\ req[p].kind = "upload"
        /\ sessions = 2
        /\ refreshToken = RefreshTok(2)
        /\ req[p].token = AccessTok(2)

\* the value v of a request is not the private key
KeyFree(v) == v # settings.MEFS_PRIVATE_KEY

\* C20: no request holds the private key.  A challenge GET holds the address
\* derived from the key, the chain id and the origin, and nothing else; a login
\* POST holds the challenge text and its signature, and nothing else; an upload
\* or retrieve request holds the access token and the caller's arguments.
C20_PrivateKeyNotSent ==
    \A p \in Callers :
        /\ KeyFree(req[p].address)
        /\ KeyFree(req[p].signature)
        /\ KeyFree(req[p].signature.signer)
        /\ KeyFree(req[p].token)
        /\ req[p].kind = "challenge"
           => req[p] = [NoReq EXCEPT !.kind = "challenge",
                                     !.address = WalletAddress(settings.MEFS_PRIVATE_KEY),
                                     !.chainid = req[p].chainid,
                                     !.origin = req[p].origin]
        /\ req[p].kind = "login"
           => req[p] = [NoReq EXCEPT !.kind = "login",
                                     !.message = track[p].challengeText,
                                     !.signature =
                                         [signer |-> WalletAddress(settings.MEFS_PRIVATE_KEY),
                                          msg |-> track[p].challengeText]]
        /\ req[p].kind \in {"upload", "retrieve"}
           => /\ req[p].token.kind = "access"
              /\ req[p].address = NoReq.address
              /\ req[p].signature = NoSignature
              /\ req[p].message = 0
              /\ req[p].file = arg[p].buffer
              /\ req[p].filename = arg[p].filename
              /\ req[p].cid = arg[p].cid
              /\ req[p].key \in {"", arg[p].key}

\* a login POST signed with the configured key is in flight
C20_Witness ==
    \E p \in Callers :
        /\ req[p].kind = "login"
        /\ IsSome(mefsConfig)
        /\ Val(mefsConfig).MEFS_PRIVATE_KEY = GoodKey
        /\ req[p].signature.signer = WalletAddress(GoodKey)

\* a call of the instance is under way
InUse == \E q \in Callers : pc[q] \notin {"idle", "done"}

\* C21: once the instance holds a validated configuration, no operation
\* replaces or removes it while a call of the instance is under way.
C21_ConfigImmutable ==
    [][(IsSome(mefsConfig) /\ InUse) => mefsConfig' = mefsConfig]_vars

\* C22: the access token and the refresh token held are the two values of
\* one and the same login response of the service, or both are absent; also
\* while several logins run concurrently.
C22_SessionIsOnePair ==
    \/ accessToken = NoToken /\ refreshToken = NoToken
    \/ \E n \in 1..sessions :
          [accessToken |-> accessToken, refreshToken |-> refreshToken] \in LoginBodies(n)

\* two calls have each completed a login of their own, and the tokens held are
\* those of the later response
C22_Witness ==
    \E p \in Callers, q \in Callers :
        /\ p # q
        /\ track[p].loginOk
        /\ track[q].loginOk
        /\ accessToken = AccessTok(2)
        /\ refreshToken = RefreshTok(2)

\* the requests a call has issued so far
Issued(t) == t.challenges + t.logins + t.storage

\* C23: while stop() has run and initializeStorage has not been called since,
\* no call issues a request, and a new uploadFile or retrieveFile fails with
\* the config-not-initialized error at once.
C23_NoRequestAfterStop ==
    [][\A p \in Callers :
          (stopped /\ stopped')
          => /\ Issued(track'[p]) <= Issued(track[p])
             /\ (pc[p] = "idle" /\ op'[p] \in {"upload", "retrieve"})
                => /\ pc'[p] = "done"
                   /\ res'[p].error = "Storage config not initialized"
      ]_vars

\* the CIDs of the retrieveFile calls the handler run of p has seen settle
Attempted(p) == [i \in 1..Len(outcomes[p]) |-> outcomes[p][i].cid]

\* caller p waits: for a service call under way, or in a handler run that has
\* not ended
Pending(p) == pc[p] \notin {"idle", "done"} \/ hpc[p] \in {"init", "loop"}

\* C24: when every request issued is answered, every initializeStorage,
\* uploadFile and retrieveFile call completes with a result or an error, and
\* a retrieve handler run that has entered its loop ends after one
\* retrieveFile per CID of its batch, in the order of the batch.
C24_CallsTerminate ==
    /\ \A p \in Callers : Pending(p) ~> ~Pending(p)
    /\ [](\A p \in Callers :
            /\ pc[p] = "done" => (res[p].ok \/ res[p].error # "")
            /\ (hpc[p] = "returned" /\ idx[p] > 0) => Attempted(p) = cids[p])

\* a handler run over a batch of two CIDs has ended after its loop
C24_Witness ==
    \E p \in Callers :
        /\ hpc[p] = "returned"
        /\ Len(cids[p]) = 2
        /\ Attempted(p) = cids[p]

\* the CIDs whose retrieveFile succeeded in the handler run of p, in request order
Succeeded(p) ==
    LET good == SelectSeq(outcomes[p], LAMBDA o : o.ok)
    IN  [i \in 1..Len(good) |-> good[i].cid]

\* the CIDs of the files the ActionResult of p reports
Reported(p) == [i \in 1..Len(hres[p].retrievedFiles) |-> hres[p].retrievedFiles[i].cid]

\* the handler run of p went through its loop and returned an ActionResult
ReturnedAfterLoop(p) == hpc[p] = "returned" /\ idx[p] > 0 /\ ~hres[p].threw

C26_InitFailureStopsBatch ==
    [][\A p \in Callers :
          (hpc[p] = "init" /\ pc[p] = "done" /\ ~res[p].ok /\ hpc'[p] # hpc[p])
          => /\ hpc'[p] = "returned"
             /\ ~hres'[p].threw
             /\ ~hres'[p].success
             /\ outcomes'[p] = <<>>
             /\ req'[p].kind = "none"
      ]_vars

\* C28: a handler run on a message without a CID ends at once by returning
\* success=false; it calls neither initializeStorage nor retrieveFile, issues
\* no request and leaves the configuration and the session as they were.
C28_NoCidNoEffect ==
    [][\A p \in Callers :
          (hpc[p] = "none" /\ hpc'[p] # "none" /\ Len(cids'[p]) = 0)
          => /\ hpc'[p] = "returned"
             /\ ~hres'[p].threw
             /\ ~hres'[p].success
             /\ UNCHANGED <<pc, op, req, track, stopped>>
             /\ UNCHANGED <<mefsConfig, accessToken, refreshToken, nonces, sessions, store>>
      ]_vars

\* the handler run of p was one of the upload action and has ended
UploadRun(p) == hpc[p] = "returned" /\ hres[p].action = "STORAGE_UPLOAD"

\* C27: the uploadFile calls of an upload handler run follow the items in
\* order; none is made after one that failed; after a failed one the handler
\* returns success=false with no CID, while the items uploaded before it are
\* stored remotely; success=true is returned only when every item was
\* uploaded, with the CID of each item in item order.
C27_UploadFailFast ==
    \A p \in Callers :
        UploadRun(p)
        => LET out == outcomes[p]
               n == Len(out)
           IN  /\ n <= Len(items[p])
               /\ \A i \in 1..n : out[i].bytes = readItem(items[p][i]).buffer
               /\ \A i \in 1..(n - 1) : out[i].ok
               /\ \A i \in 1..n :
                     out[i].ok => /\ out[i].bytes \in store
                                  /\ [cid |-> out[i].cid, bytes |-> out[i].bytes] \in uploaded
               /\ (n > 0 /\ ~out[n].ok)
                  => /\ ~hres[p].threw
                     /\ ~hres[p].success
                     /\ hres[p].cidList = <<>>
               /\ hres[p].success
                  => /\ n = Len(items[p])
                     /\ \A i \in 1..n : out[i].ok
                     /\ hres[p].cidList = [i \in 1..n |-> out[i].cid]

=============================================================================
